---------------------------- MODULE Spec2Model ----------------------------
(***************************************************************************)
(* Model of the mobile PDF viewer: the rendering scheduler (usePDFRenderer *)
(* of the composables module), the transform engine (useTransform), the    *)
(* gesture controller (TouchHandlers) and the host adapter                 *)
(* (MobilePDFViewer.vue).                                                  *)
(*                                                                         *)
(* Numbers: the code computes in IEEE doubles.  Here scale is a fixed-     *)
(* point integer in units of 1/2000 (2000 is scale 1), lengths of the      *)
(* transform and gesture code are in tenths of a pixel, and a progress     *)
(* fraction is the pair <<numerator, denominator>>.                        *)
(*                                                                         *)
(* Turns: every action is one turn of the JavaScript event loop, i.e. one  *)
(* event handler or promise continuation together with the microtasks it   *)
(* queues.  `await nextTick()` is resolved by Vue's microtask flush, so no *)
(* other event handler runs between the code before it and the code after  *)
(* it; the code on both sides belongs to the same action.  The awaits on   *)
(* the PDF engine (getDocument, getPage, render) are settled by worker     *)
(* messages and split the handlers into separate actions.                  *)
(***************************************************************************)
EXTENDS Integers, Sequences, FiniteSets, TLC

\* ------------------------------------------------------------------ bounds
\* number of loadDocument calls with a non-empty source
MaxLoads == 2
\* largest page count of a document
MaxPages == 2
\* largest number of renderPage invocations alive at once
MaxRenders == 2

\* number of loadDocument calls with an empty source
MaxEmptyLoads == 1

\* number of touch and mouse events of one gesture session
MaxGestureEvents == 6
\* largest number of simultaneous touch points
MaxTouches == 3
\* number of taps of a session of taps
MaxTaps == 4

\* ------------------------------------------------------- program constants
\* DEFAULT_CONFIG: minScale, maxScale, dampingFactor (percent), boundaryPadding
\* (px), pinchSensitivity (percent)
minScale == 1
maxScale == 4
dampingFactorPct == 95
boundaryPadding == 50
pinchSensitivityPct == 60
DOUBLE_CLICK_TIMEOUT == 300
DOUBLE_CLICK_DISTANCE == 50
\* SCALE_THRESHOLD = 0.2, in units of 1/2000
SCALE_THRESHOLD == 400
ZOOM_SCALE == 2
\* startInertialScroll: velocity multiplier
VelocityMultiplier == 25
\* handleTouchMove: samples kept in moveHistory
HistoryLength == 5
\* handleTouchEnd: samples needed (length > 2) and the span they must exceed (ms)
HistoryNeeded == 2
HistorySpan == 10
\* DEFAULT_CONFIG.resolutionMultiplier
resolutionMultiplier == 3
\* fallback of innerRef.offsetWidth in loadPDF
DefaultWrapperWidth == 800
\* fixed-point unit of scale: 1/2000, so that a change of scale below
\* BOUNDARY_SCALE_THRESHOLD (0.001, two units) can be told from none
BOUNDARY_SCALE_THRESHOLD == 2
SCALE_UNIT == 1000 * BOUNDARY_SCALE_THRESHOLD

\* ------------------------------------------------------------- environment
\* layout the host gives the component: offsetWidth of the inner element and
\* the intrinsic width of the first page of the document of each source
Layout == [innerOffsetWidth |-> 400, pageWidth |-> [l \in 1..MaxLoads |-> 200 * l]]

\* Lengths of the transform and gesture code are in tenths of a pixel (0.1 px,
\* the velocity threshold of animationLoop, is one unit).
Units == [px |-> 10]

\* geometry read by getBoundaryLimits and the gesture handlers, in tenths of a
\* pixel: the container (padding 0 10px in the component's style sheet), the
\* inner element (two mount targets of 100vh), the container's client rectangle
Geometry ==
  [wrapperClientWidth |-> 4000, wrapperClientHeight |-> 8000,
   paddingLeft |-> 100, paddingRight |-> 100, paddingTop |-> 0, paddingBottom |-> 0,
   innerClientWidth |-> 3800, innerScrollHeight |-> 16000,
   rectLeft |-> 0, rectTop |-> 0]

\* other geometries a host page can give the viewer: content that fits the
\* container on both axes, and a container with vertical padding whose content
\* is wider and taller than its content area
Geometries ==
  {Geometry,
   [Geometry EXCEPT !.innerScrollHeight = 4000],
   [Geometry EXCEPT !.paddingTop = 200, !.paddingBottom = 200,
                    !.innerClientWidth = 5000, !.innerScrollHeight = 7700]}
\* scales (units of 1/2000), boundaryPadding values and coordinates (tenths of a
\* pixel) the boundary functions are called with
Scales == {SCALE_UNIT \div 2, SCALE_UNIT, SCALE_UNIT + 1, (3 * SCALE_UNIT) \div 2,
           2 * SCALE_UNIT, 4 * SCALE_UNIT}
Paddings == {0, boundaryPadding * Units.px}
Offsets == {-70000, -600, 0, 300, 900}

\* positions a finger can be at (clientX, clientY), in tenths of a pixel
Points == {<<1000, 1000>>, <<2000, 1000>>, <<1000, 3000>>}
\* positions of the fingers of a slow pinch: one finger rests, the other moves
\* a tenth of a pixel per touchmove, 200px away; and the time between its events
SlowPinch ==
  [points |-> {<<1000, 1000>>, <<1000, 3000>>, <<1000, 3001>>, <<1000, 3002>>},
   delta |-> 5]

\* Date.now() when the session starts, and by how much it advances from one
\* event to the next (ms)
Clock == [start |-> 1000, deltas |-> {5, 400}]

\* DEFAULT_CONFIG as far as it is varied: minScale and maxScale, in scale units
DEFAULT_CONFIG == [minScale |-> minScale * SCALE_UNIT, maxScale |-> maxScale * SCALE_UNIT]
\* configurations a host can pass besides the default (props.config merged over
\* DEFAULT_CONFIG), with minScale <= 1 <= maxScale: maxScale 1.5, and minScale
\* 0.5 with maxScale 1
Configs ==
  {[minScale |-> SCALE_UNIT, maxScale |-> (3 * SCALE_UNIT) \div 2],
   [minScale |-> SCALE_UNIT \div 2, maxScale |-> SCALE_UNIT]}

LoadIds == 1..MaxLoads
PageCounts == 1..MaxPages
RenderIds == 1..MaxRenders

VARIABLES
  \* ---- usePDFRenderer
  canvasList,       \* the page slots, in document order
  listDoc,          \* identity of the array held by canvasList.value: the load
                    \* that created it, 0 for an empty array
  isLoading,
  loadingProgress,  \* percent, whole number
  baseScale,        \* scale units
  observer,         \* observer.value: 0 for null, else the load whose
                    \* IntersectionObserver it is
  pdfDoc,           \* pdfDoc.value: 0 for null, else the load that opened it
  \* ---- the asynchronous calls in flight
  loads,            \* the loadPDFDocument/loadPDF calls and their position
  renders,          \* the renderPage calls and their position
  \* ---- IntersectionObserver
  visible,          \* per observed mount target, the last isIntersecting reported
  \* ---- emit(...)
  ev,               \* per load: how many of each event it has emitted so far
  emitted,          \* the events emitted by the last turn, in order
  \* ---- useTransform
  scale, translateX, translateY, isDragging, isPinching,
  velocityX, velocityY, animationFrame, refsCached,
  cachedBoundaryLimits, lastBoundaryScale,
  \* ---- TouchHandlers
  startX, startY, lastScale, lastDistance, moveHistory,
  lastTouchTime, touchCount, lastTouchX, lastTouchY,
  \* ---- the device
  touches,          \* the touch points on the screen, in the order they landed
  now,              \* Date.now()
  gestureEvents,    \* touch and mouse events delivered so far
  \* ---- the host
  config,           \* mergedConfig.value: minScale and maxScale
  geometry,         \* the layout of the container and the inner element
  \* ---- direct calls of the boundary functions
  call,             \* the arguments: empty, or the one record of arguments
  ret,              \* empty, or the one record of what the calls returned
  \* ---- the host's calls
  emptyLoads        \* loadDocument calls made with an empty source so far

rvars == <<canvasList, listDoc, isLoading, loadingProgress, baseScale, observer,
           pdfDoc, loads, renders, visible, ev, emitted>>
tvars == <<scale, translateX, translateY, isDragging, isPinching,
           velocityX, velocityY, animationFrame, refsCached,
           cachedBoundaryLimits, lastBoundaryScale>>
gvars == <<startX, startY, lastScale, lastDistance, moveHistory,
           lastTouchTime, touchCount, lastTouchX, lastTouchY, touches, now, gestureEvents>>
vars == <<rvars, tvars, gvars, config, geometry, call, ret, emptyLoads>>

\* -------------------------------------------------------------- page slots
\* a CanvasItem as loadPDF creates it; divEl is set by the template's ref
\* callback during the nextTick that follows and is not a field here: mounted
\* says whether divEl contains item.canvas.  rendering_task 0 is null, else the
\* id of the renderPage call that created the task.
NewCanvasItem ==
  [renderStatus |-> "pending", canvas |-> FALSE, mounted |-> FALSE, rendering_task |-> 0]

NoEvents == [start |-> 0, complete |-> 0, error |-> 0, progress |-> <<0, 1>>]

Ev(type, l, value) == [type |-> type, load |-> l, value |-> value]

\* ------------------------------------------------------------ useTransform
NoLimits == [minX |-> 0, maxX |-> 0, minY |-> 0, maxY |-> 0]
\* cachedBoundaryLimits is the empty set for null, else the set of the one
\* BoundaryLimits record it holds

Abs(a) == IF a < 0 THEN -a ELSE a
Min(a, b) == IF a < b THEN a ELSE b
Max(a, b) == IF a > b THEN a ELSE b
\* a / b of doubles (b > 0), rounded to the nearest unit
Div(a, b) == (a \div b) + (IF 2 * (a % b) >= b THEN 1 ELSE 0)
\* a / b of doubles (b > 0), rounded toward zero
Trunc(a, b) == IF a >= 0 THEN a \div b ELSE -((-a) \div b)

RECURSIVE SqrtBetween(_, _, _)
SqrtBetween(n, lo, hi) ==
  IF lo >= hi THEN lo
  ELSE LET mid == (lo + hi + 1) \div 2
       IN IF mid * mid <= n THEN SqrtBetween(n, mid, hi) ELSE SqrtBetween(n, lo, mid - 1)
\* Math.sqrt, rounded down to a unit
Sqrt(n) == SqrtBetween(n, 0, 46340)

\* the refs of useTransform as one record
TState ==
  [scale |-> scale, translateX |-> translateX, translateY |-> translateY,
   isDragging |-> isDragging, isPinching |-> isPinching,
   velocityX |-> velocityX, velocityY |-> velocityY,
   animationFrame |-> animationFrame, refsCached |-> refsCached,
   cachedBoundaryLimits |-> cachedBoundaryLimits, lastBoundaryScale |-> lastBoundaryScale]

SetTState(T) ==
  \E S \in {T} :
    /\ scale' = S.scale
    /\ translateX' = S.translateX
    /\ translateY' = S.translateY
    /\ isDragging' = S.isDragging
    /\ isPinching' = S.isPinching
    /\ velocityX' = S.velocityX
    /\ velocityY' = S.velocityY
    /\ animationFrame' = S.animationFrame
    /\ refsCached' = S.refsCached
    /\ cachedBoundaryLimits' = S.cachedBoundaryLimits
    /\ lastBoundaryScale' = S.lastBoundaryScale

\* mutant of BoundaryLimitsOf: the limits as an earlier version computed them
\* (Math.min(0, ...) and Math.max(0, boundaryPadding) on the bounding rectangles)
BoundaryLimitsEarlier(G, s, pad) ==
  LET scaledWidth == Trunc(G.innerClientWidth * s, SCALE_UNIT)
      scaledHeight == Trunc(G.innerScrollHeight * s, SCALE_UNIT)
  IN [minX |-> Min(0, G.wrapperClientWidth - scaledWidth - pad), maxX |-> Max(0, pad),
      minY |-> Min(0, G.wrapperClientHeight - scaledHeight - pad), maxY |-> Max(0, pad)]

\* getBoundaryLimits past its cache check, with both refs present: the limits
\* for geometry G, scale s (scale units) and boundaryPadding pad
BoundaryLimitsOf(G, s, pad) ==
  LET contentAreaWidth == G.wrapperClientWidth - G.paddingLeft - G.paddingRight
      contentAreaHeight == G.wrapperClientHeight - G.paddingTop - G.paddingBottom
      scaledWidth == Trunc(G.innerClientWidth * s, SCALE_UNIT)
      scaledHeight == Trunc(G.innerScrollHeight * s, SCALE_UNIT)
  IN [minX |-> IF scaledWidth > contentAreaWidth THEN contentAreaWidth - scaledWidth - pad ELSE 0,
      maxX |-> IF scaledWidth > contentAreaWidth THEN pad ELSE 0,
      minY |-> IF scaledHeight > contentAreaHeight THEN contentAreaHeight - scaledHeight - pad ELSE 0,
      maxY |-> IF scaledHeight > contentAreaHeight THEN pad ELSE 0]

\* the same for the viewer's own geometry and the default boundaryPadding
ComputeBoundaryLimits(s) == BoundaryLimitsOf(geometry, s, boundaryPadding * Units.px)

\* getBoundaryLimits(wrapperRef, innerRef, scale, boundaryPadding, cachedLimits,
\* lastScale) with both refs present, their geometry being G
getBoundaryLimitsIn(G, pad, s, cachedLimits, lastScaleArg) ==
  IF cachedLimits # {} /\ Abs(lastScaleArg - s) < BOUNDARY_SCALE_THRESHOLD
  THEN CHOOSE b \in cachedLimits : TRUE
  ELSE BoundaryLimitsOf(G, s, pad)

\* getBoundaryLimits(wrapperRef, innerRef, scale, boundaryPadding, cachedLimits,
\* lastScale) of a mounted component (both refs present)
getBoundaryLimits(s, cachedLimits, lastScaleArg) ==
  getBoundaryLimitsIn(geometry, boundaryPadding * Units.px, s, cachedLimits, lastScaleArg)

\* mutant of constrainTranslate: an elastic clamp that lets half of the
\* overshoot through
constrainTranslateElastic(x, y, b) ==
  [x |-> IF x > b.maxX THEN b.maxX + (x - b.maxX) \div 2
         ELSE IF x < b.minX THEN b.minX - (b.minX - x) \div 2 ELSE x,
   y |-> IF y > b.maxY THEN b.maxY + (y - b.maxY) \div 2
         ELSE IF y < b.minY THEN b.minY - (b.minY - y) \div 2 ELSE y]

\* constrainTranslate(x, y, boundaries)
constrainTranslate(x, y, b) ==
  [x |-> Max(b.minX, Min(b.maxX, x)), y |-> Max(b.minY, Min(b.maxY, y))]

\* transformStyle (computed): the transition and willChange entries
transformStyle ==
  [transition |-> IF isDragging \/ animationFrame THEN "none" ELSE "transform 0.3s ease-out",
   willChange |-> IF isDragging \/ isPinching \/ animationFrame THEN "transform" ELSE "auto"]

\* stopInertialScroll: cancel the frame and zero the velocities
stopInertialScroll(T) ==
  [T EXCEPT !.animationFrame = FALSE, !.velocityX = 0, !.velocityY = 0]

\* applyTransform(newScale, newX, newY)
applyTransform(T, newScale, newX, newY) ==
  [stopInertialScroll(T) EXCEPT !.scale = newScale, !.translateX = newX, !.translateY = newY]

\* getBoundaryLimitsForRefs: the limits for scale.value, stored in the cache
getBoundaryLimitsForRefs(T) ==
  getBoundaryLimits(T.scale, T.cachedBoundaryLimits, T.lastBoundaryScale)

\* constrainTranslateForRefs(x, y, wrapperRef, innerRef): the state it leaves
\* (refs and limits cached) and the point it returns
constrainTranslateForRefs(T, x, y) ==
  LET b == getBoundaryLimitsForRefs(T)
  IN [T |-> [T EXCEPT !.refsCached = TRUE, !.cachedBoundaryLimits = {b},
                      !.lastBoundaryScale = T.scale],
      p |-> constrainTranslate(x, y, b)]

\* clearBoundaryCache
clearBoundaryCache(T) == [T EXCEPT !.cachedBoundaryLimits = {}]

\* resetPosition, without its emit('scale-change', 1)
\* mutant of resetPosition: the cached limits survive the reset
resetPositionKeepsCache(T) ==
  [applyTransform(stopInertialScroll(T), SCALE_UNIT, 0, 0) EXCEPT !.isPinching = FALSE]

resetPosition(T) ==
  [applyTransform(stopInertialScroll(T), SCALE_UNIT, 0, 0)
     EXCEPT !.isPinching = FALSE, !.cachedBoundaryLimits = {}]

\* startInertialScroll(vx, vy) with vx = dx / timeDiff, vy = dy / timeDiff px/ms
\* (dx, dy in tenths of a pixel): |vx| > 0.1 is |dx| > timeDiff
startInertialScroll(T, dx, dy, timeDiff) ==
  LET T0 == stopInertialScroll(T)
      T1 == [T0 EXCEPT !.velocityX = Div(dx * VelocityMultiplier, timeDiff),
                       !.velocityY = Div(dy * VelocityMultiplier, timeDiff)]
  IN IF Abs(dx) > timeDiff \/ Abs(dy) > timeDiff
     THEN [T1 EXCEPT !.animationFrame = TRUE]
     ELSE T1

\* animationLoop: one frame of the inertial scroll
animationLoop(T) ==
  IF ~T.refsCached THEN stopInertialScroll(T)
  ELSE LET newX == T.translateX + T.velocityX
           newY == T.translateY + T.velocityY
           c == constrainTranslateForRefs(T, newX, newY)
           vx == Trunc((IF c.p.x # newX THEN 0 ELSE T.velocityX) * dampingFactorPct, 100)
           vy == Trunc((IF c.p.y # newY THEN 0 ELSE T.velocityY) * dampingFactorPct, 100)
           T1 == [c.T EXCEPT !.translateX = c.p.x, !.translateY = c.p.y,
                             !.velocityX = vx, !.velocityY = vy]
       IN IF Abs(vx) * 10 < Units.px /\ Abs(vy) * 10 < Units.px
          THEN stopInertialScroll(T1)
          ELSE [T1 EXCEPT !.animationFrame = TRUE]

\* ---------------------------------------------------------- usePDFRenderer
\* the events of one turn: recorded in emitted, and counted per load
Count(es, type, l) == Cardinality({i \in DOMAIN es : es[i].type = type /\ es[i].load = l})

LastProgress(es, l, old) ==
  LET idx == {i \in DOMAIN es : es[i].type = "load-progress" /\ es[i].load = l}
  IN IF idx = {} THEN old
     ELSE es[CHOOSE i \in idx : \A j \in idx : j <= i].value

Emit(es) ==
  /\ emitted' = es
  /\ ev' = [l \in LoadIds |->
              [start    |-> ev[l].start + Count(es, "load-start", l),
               complete |-> ev[l].complete + Count(es, "load-complete", l),
               error    |-> ev[l].error + Count(es, "load-error", l),
               progress |-> LastProgress(es, l, ev[l].progress)]]

\* updateProgress: progressRef.value = clamp(progress * 100, 0, 100)
ProgressPercent(p) ==
  LET pct == (p[1] * 100) \div p[2]
  IN IF pct < 0 THEN 0 ELSE IF pct > 100 THEN 100 ELSE pct

\* the value the observer callback hands to updateProgress after renderPage
\* returns: (index + 1) / pdf.numPages
ProgressValue(r) == <<r.page, loads[r.pdf].numPages>>

\* baseScale = (wrapperWidth / viewport.width) * config.resolutionMultiplier,
\* with wrapperWidth = innerRef?.offsetWidth || 800
BaseScaleFor(l) ==
  LET wrapperWidth == IF Layout.innerOffsetWidth # 0 THEN Layout.innerOffsetWidth
                      ELSE DefaultWrapperWidth
  IN (wrapperWidth * resolutionMultiplier * SCALE_UNIT) \div Layout.pageWidth[l]

\* cleanupPDF followed by `pdfDoc.value = doc` (doc 0: left null): the observer
\* is disconnected and dropped, the old document destroyed, the slot list
\* replaced by an empty array.  It cancels no rendering task and removes no
\* canvas itself.
CleanupPDF(doc) ==
  /\ observer' = 0
  /\ visible' = <<>>
  /\ pdfDoc' = doc
  /\ canvasList' = <<>>
  /\ listDoc' = 0

\* mutant of LoadFinally: the loading flag is not cleared
LoadFinallyKeepsFlag ==
  /\ isLoading' = isLoading
  /\ loadingProgress' = 0

\* the finally block of loadPDF
LoadFinally ==
  /\ isLoading' = FALSE
  /\ loadingProgress' = 0

\* the catch block of loadPDF, then finally: load-error is emitted and the error
\* is thrown again, so the promise loadPDFDocument returns is rejected
LoadCatch(l) ==
  /\ Emit(<<Ev("load-error", l, 0)>>)
  /\ loads' = [loads EXCEPT ![l].pc = "failed", ![l].result = "rejected"]
  /\ LoadFinally

\* loadPDFDocument(source) with a non-empty source, up to the first await of
\* loadPDF (getDocument(source).promise)
LoadPDFDocument(l) ==
  /\ loads[l].pc = "idle"
  /\ \A k \in LoadIds : k < l => loads[k].pc # "idle"
  /\ isLoading' = TRUE
  /\ loadingProgress' = 0
  /\ Emit(<<Ev("load-start", l, 0)>>)
  /\ loads' = [loads EXCEPT ![l].pc = "open", ![l].result = "pending"]
  /\ UNCHANGED <<canvasList, listDoc, baseScale, observer, pdfDoc, renders, visible, tvars, gvars, config, geometry, call, ret, emptyLoads>>

\* mutant of LoadPDFDocumentEmpty: the source is not tested, loadPDF starts
LoadPDFDocumentEmptyStarts ==
  /\ emptyLoads < MaxEmptyLoads
  /\ emptyLoads' = emptyLoads + 1
  /\ isLoading' = TRUE
  /\ loadingProgress' = 0
  /\ Emit(<<Ev("load-start", 0, 0)>>)
  /\ UNCHANGED <<canvasList, listDoc, baseScale, observer, pdfDoc, loads, renders,
                 visible, tvars, gvars, config, geometry, call, ret>>

\* loadPDFDocument(source) with an empty source: `if (!source) return;`
LoadPDFDocumentEmpty ==
  /\ emptyLoads < MaxEmptyLoads
  /\ emptyLoads' = emptyLoads + 1
  /\ Emit(<<>>)
  /\ UNCHANGED <<canvasList, listDoc, isLoading, loadingProgress, baseScale, observer,
                 pdfDoc, loads, renders, visible, tvars, gvars, config, geometry, call, ret>>

\* getDocument resolved with a document of n pages: the previous document is
\* torn down, then (after nextTick) getPage(1) is awaited
OpenResolve(l, n) ==
  /\ loads[l].pc = "open"
  /\ CleanupPDF(l)
  /\ loads' = [loads EXCEPT ![l].pc = "page1", ![l].numPages = n]
  /\ Emit(<<>>)
  /\ UNCHANGED <<isLoading, loadingProgress, baseScale, renders, tvars, gvars, config, geometry, call, ret, emptyLoads>>

\* getDocument rejected
OpenReject(l) ==
  /\ loads[l].pc = "open"
  /\ LoadCatch(l)
  /\ UNCHANGED <<canvasList, listDoc, baseScale, observer, pdfDoc, renders, visible, tvars, gvars, config, geometry, call, ret, emptyLoads>>

\* mutant of CompleteEvents: load-complete is not emitted
CompleteEventsWithoutComplete(l) ==
  <<Ev("scale-change", l, SCALE_UNIT)>>

\* what a load emits once its slots exist: resetPosition's scale-change, then
\* load-complete(pdf.numPages)
CompleteEvents(l) ==
  <<Ev("scale-change", l, SCALE_UNIT), Ev("load-complete", l, loads[l].numPages)>>

\* getPage(1) resolved: base scale, the slots, (nextTick: the template mounts one
\* div per slot), resetPosition, the observer observing every div, load-complete,
\* finally
Page1Resolve(l) ==
  /\ loads[l].pc = "page1"
  /\ baseScale' = BaseScaleFor(l)
  /\ canvasList' = [i \in 1..loads[l].numPages |-> NewCanvasItem]
  /\ listDoc' = l
  /\ SetTState(resetPosition(TState))
  /\ observer' = l
  /\ visible' = [i \in 1..loads[l].numPages |-> "none"]
  /\ Emit(CompleteEvents(l))
  /\ LoadFinally
  /\ loads' = [loads EXCEPT ![l].pc = "done", ![l].result = "resolved"]
  /\ UNCHANGED <<pdfDoc, renders, gvars, config, geometry, call, ret, emptyLoads>>

\* mutant of Page1Reject: the slots are created before the first page's size
\* is known, and stay when getPage(1) fails
Page1RejectAfterSlots(l) ==
  /\ loads[l].pc = "page1"
  /\ LoadCatch(l)
  /\ canvasList' = [i \in 1..loads[l].numPages |-> NewCanvasItem]
  /\ listDoc' = l
  /\ UNCHANGED <<baseScale, observer, pdfDoc, renders, visible, tvars, gvars, config, geometry, call, ret, emptyLoads>>

\* getPage(1) rejected
Page1Reject(l) ==
  /\ loads[l].pc = "page1"
  /\ LoadCatch(l)
  /\ UNCHANGED <<canvasList, listDoc, baseScale, observer, pdfDoc, renders, visible, tvars, gvars, config, geometry, call, ret, emptyLoads>>

\* ---------------------------------------------------------------- renderPage
UsedRenderIds ==
  {r.id : r \in renders} \cup {canvasList[i].rendering_task : i \in DOMAIN canvasList}

FreeRenderId == CHOOSE id \in RenderIds \ UsedRenderIds : \A o \in RenderIds \ UsedRenderIds : id <= o

\* renderPage(pdf, pageNum, canvas) up to its first await, pdf.getPage(pageNum).
\* item is the list whose slot the call holds once getPage has resolved (0: none
\* yet); cancelled is the state of the engine's RenderTask.
NewRender(pdf, pageNum) ==
  [id |-> FreeRenderId, pdf |-> pdf, page |-> pageNum, pc |-> "getPage",
   item |-> 0, cancelled |-> FALSE]

\* rendering_task?.cancel() on the handle a slot holds
CancelTask(handle) ==
  {IF r.id = handle /\ r.pc = "render" THEN [r EXCEPT !.cancelled = TRUE] ELSE r : r \in renders}

\* the statement after `await renderPage(...)` in the observer callback
ReportProgress(r) ==
  /\ loadingProgress' = ProgressPercent(ProgressValue(r))
  /\ Emit(<<Ev("load-progress", r.pdf, ProgressValue(r))>>)

\* observer callback, entry.isIntersecting: canvas created and appended if
\* needed, and renderPage started if the slot is pending
NotifyIn(i) ==
  /\ observer # 0
  /\ i \in DOMAIN canvasList
  /\ visible[i] # "in"
  /\ visible' = [visible EXCEPT ![i] = "in"]
  /\ canvasList' = [canvasList EXCEPT ![i].canvas = TRUE, ![i].mounted = TRUE]
  /\ IF canvasList[i].renderStatus = "pending"
     THEN /\ Cardinality(UsedRenderIds \ {0}) < MaxRenders
          /\ renders' = renders \cup {NewRender(observer, i)}
     ELSE UNCHANGED renders
  /\ Emit(<<>>)
  /\ UNCHANGED <<listDoc, isLoading, loadingProgress, baseScale, observer, pdfDoc, loads, tvars, gvars, config, geometry, call, ret, emptyLoads>>

\* mutant of NotifyOut: the slot is evicted whatever the number of slots
NotifyOutAnyCount(i) ==
  /\ observer # 0
  /\ i \in DOMAIN canvasList
  /\ visible[i] # "out"
  /\ visible' = [visible EXCEPT ![i] = "out"]
  /\ IF canvasList[i].canvas /\ canvasList[i].mounted
     THEN /\ renders' = CancelTask(canvasList[i].rendering_task)
          /\ canvasList' = [canvasList EXCEPT ![i] = NewCanvasItem]
     ELSE UNCHANGED <<renders, canvasList>>
  /\ Emit(<<>>)
  /\ UNCHANGED <<listDoc, isLoading, loadingProgress, baseScale, observer, pdfDoc, loads, tvars, gvars, config, geometry, call, ret, emptyLoads>>

\* mutant of NotifyOut: eviction removes the slot from the list
NotifyOutRemovesSlot(i) ==
  /\ observer # 0
  /\ i \in DOMAIN canvasList
  /\ visible[i] # "out"
  /\ visible' = [visible EXCEPT ![i] = "out"]
  /\ IF canvasList[i].canvas /\ Len(canvasList) > 1 /\ canvasList[i].mounted
     THEN /\ renders' = CancelTask(canvasList[i].rendering_task)
          /\ canvasList' = SubSeq(canvasList, 1, i - 1) \o SubSeq(canvasList, i + 1, Len(canvasList))
     ELSE UNCHANGED <<renders, canvasList>>
  /\ Emit(<<>>)
  /\ UNCHANGED <<listDoc, isLoading, loadingProgress, baseScale, observer, pdfDoc, loads, tvars, gvars, config, geometry, call, ret, emptyLoads>>

\* observer callback, not intersecting: with more than one slot, and the canvas
\* in its div, the task is cancelled and the slot reset
NotifyOut(i) ==
  /\ observer # 0
  /\ i \in DOMAIN canvasList
  /\ visible[i] # "out"
  /\ visible' = [visible EXCEPT ![i] = "out"]
  /\ IF canvasList[i].canvas /\ Len(canvasList) > 1 /\ canvasList[i].mounted
     THEN /\ renders' = CancelTask(canvasList[i].rendering_task)
          /\ canvasList' = [canvasList EXCEPT ![i] = NewCanvasItem]
     ELSE UNCHANGED <<renders, canvasList>>
  /\ Emit(<<>>)
  /\ UNCHANGED <<listDoc, isLoading, loadingProgress, baseScale, observer, pdfDoc, loads, tvars, gvars, config, geometry, call, ret, emptyLoads>>

\* pdf.getPage(pageNum) resolved: item = canvasList.value[pageNum - 1] is read
\* from the list of that moment; the canvas argument is never null; status
\* loading, the task created and stored.  With no such slot the assignment
\* throws, the catch logs it and the callback goes on to updateProgress.
GetPageResolve(r) ==
  /\ r \in renders
  /\ r.pc = "getPage"
  /\ IF r.page \in DOMAIN canvasList
     THEN /\ canvasList' = [canvasList EXCEPT ![r.page].renderStatus = "loading",
                                               ![r.page].rendering_task = r.id]
          /\ renders' = (renders \ {r}) \cup {[r EXCEPT !.pc = "render", !.item = listDoc]}
          /\ Emit(<<>>)
          /\ UNCHANGED loadingProgress
     ELSE /\ renders' = renders \ {r}
          /\ ReportProgress(r)
          /\ UNCHANGED canvasList
  /\ UNCHANGED <<listDoc, isLoading, baseScale, observer, pdfDoc, loads, visible, tvars, gvars, config, geometry, call, ret, emptyLoads>>

\* pdf.getPage(pageNum) rejected: caught and logged inside renderPage, which
\* returns normally
GetPageReject(r) ==
  /\ r \in renders
  /\ r.pc = "getPage"
  /\ renders' = renders \ {r}
  /\ ReportProgress(r)
  /\ UNCHANGED <<canvasList, listDoc, isLoading, baseScale, observer, pdfDoc, loads, visible, tvars, gvars, config, geometry, call, ret, emptyLoads>>

\* task.promise resolved: handle cleared, status complete, on the slot object
\* the call holds (a slot of a replaced list is garbage)
RenderResolve(r) ==
  /\ r \in renders
  /\ r.pc = "render"
  /\ ~r.cancelled
  /\ renders' = renders \ {r}
  /\ canvasList' = IF r.item = listDoc
                   THEN [canvasList EXCEPT ![r.page].rendering_task = 0,
                                           ![r.page].renderStatus = "complete"]
                   ELSE canvasList
  /\ ReportProgress(r)
  /\ UNCHANGED <<listDoc, isLoading, baseScale, observer, pdfDoc, loads, visible, tvars, gvars, config, geometry, call, ret, emptyLoads>>

\* task.promise rejected (engine failure, or RenderingCancelledException after
\* cancel): caught and logged inside renderPage, which returns normally
RenderReject(r) ==
  /\ r \in renders
  /\ r.pc = "render"
  /\ renders' = renders \ {r}
  /\ ReportProgress(r)
  /\ UNCHANGED <<canvasList, listDoc, isLoading, baseScale, observer, pdfDoc, loads, visible, tvars, gvars, config, geometry, call, ret, emptyLoads>>

\* ------------------------------------------------------------ TouchHandlers
X(p) == p[1]
Y(p) == p[2]

\* getDistance(touches)
getDistance(ts) ==
  LET dx == X(ts[2]) - X(ts[1])
      dy == Y(ts[2]) - Y(ts[1])
  IN Sqrt(dx * dx + dy * dy)

\* getTouchCenter(touches)
getTouchCenter(ts) ==
  [x |-> (X(ts[1]) + X(ts[2])) \div 2, y |-> (Y(ts[1]) + Y(ts[2])) \div 2]

\* mutant of StartPinch: the drag is not cancelled when the second finger lands
StartPinchKeepsDrag(T) == [T EXCEPT !.isPinching = TRUE]

\* mutant of StartPinch: a second finger that lands during a drag is ignored
StartPinchUnlessDragging(T) == [T EXCEPT !.isPinching = ~T.isDragging]

\* handleTouchStart with two touches: setDragging(false), setPinching(true)
StartPinch(T) == [T EXCEPT !.isDragging = FALSE, !.isPinching = TRUE]

\* handleTouchStart without its call of stopInertialScroll
handleTouchStartCoasting(ts) ==
  LET T0 == clearBoundaryCache(TState)
  IN /\ moveHistory' = <<>>
     /\ IF Len(ts) = 1
        THEN /\ SetTState([T0 EXCEPT !.isDragging = TRUE, !.isPinching = FALSE])
             /\ startX' = X(ts[1]) - translateX
             /\ startY' = Y(ts[1]) - translateY
             /\ UNCHANGED <<lastDistance, lastScale>>
        ELSE IF Len(ts) = 2
        THEN /\ SetTState(StartPinch(T0))
             /\ lastDistance' = getDistance(ts)
             /\ lastScale' = scale
             /\ UNCHANGED <<startX, startY>>
        ELSE /\ SetTState(T0)
             /\ UNCHANGED <<startX, startY, lastDistance, lastScale>>
     /\ Emit(<<>>)
     /\ UNCHANGED <<lastTouchTime, touchCount, lastTouchX, lastTouchY>>

\* handleTouchStart(e), e.touches = ts
handleTouchStart(ts) ==
  LET T0 == stopInertialScroll(clearBoundaryCache(TState))
  IN /\ moveHistory' = <<>>
     /\ IF Len(ts) = 1
        THEN /\ SetTState([T0 EXCEPT !.isDragging = TRUE, !.isPinching = FALSE])
             /\ startX' = X(ts[1]) - translateX
             /\ startY' = Y(ts[1]) - translateY
             /\ UNCHANGED <<lastDistance, lastScale>>
        ELSE IF Len(ts) = 2
        THEN /\ SetTState(StartPinch(T0))
             /\ lastDistance' = getDistance(ts)
             /\ lastScale' = scale
             /\ UNCHANGED <<startX, startY>>
        ELSE /\ SetTState(T0)
             /\ UNCHANGED <<startX, startY, lastDistance, lastScale>>
     /\ Emit(<<>>)
     /\ UNCHANGED <<lastTouchTime, touchCount, lastTouchX, lastTouchY>>

\* the drag branch of handleTouchMove
DragMove(ts, t) ==
  LET pushed == Append(moveHistory, [x |-> X(ts[1]), y |-> Y(ts[1]), time |-> t])
      newX == X(ts[1]) - startX
      newY == Y(ts[1]) - startY
      c == constrainTranslateForRefs(TState, newX, newY)
  IN /\ moveHistory' = IF Len(pushed) > HistoryLength THEN Tail(pushed) ELSE pushed
     /\ SetTState(applyTransform(c.T, scale, c.p.x, c.p.y))
     /\ Emit(<<>>)
     /\ UNCHANGED <<startX, startY, lastDistance, lastScale>>

\* newScale of the pinch branch: scale * (1 + (distance / lastDistance - 1) *
\* pinchSensitivity), clamped to [minScale, maxScale]
PinchScale(s, distance, last) ==
  LET raw == Div(s * (last * 100 + (distance - last) * pinchSensitivityPct), last * 100)
  IN Max(config.minScale, Min(config.maxScale, raw))

\* the pinch branch of handleTouchMove: the translate is constrained before
\* applyTransform stores the new scale
PinchMove(ts) ==
  LET distance == getDistance(ts)
      newScale == PinchScale(scale, distance, lastDistance)
      center == getTouchCenter(ts)
      centerX == center.x - geometry.rectLeft
      centerY == center.y - geometry.rectTop
      newX == centerX - Div((centerX - translateX) * newScale, scale)
      newY == centerY - Div((centerY - translateY) * newScale, scale)
      c == constrainTranslateForRefs(TState, newX, newY)
  IN IF lastDistance = 0
     THEN /\ lastDistance' = distance
          /\ Emit(<<>>)
          /\ UNCHANGED <<tvars, startX, startY, lastScale, moveHistory>>
     ELSE /\ SetTState(applyTransform(c.T, newScale, c.p.x, c.p.y))
          /\ Emit(<<Ev("scale-change", 0, newScale)>>)
          /\ lastDistance' = distance
          /\ UNCHANGED <<startX, startY, lastScale, moveHistory>>

\* handleTouchMove(e), e.touches = ts, Date.now() = t
handleTouchMove(ts, t) ==
  /\ IF Len(ts) = 1 /\ isDragging THEN DragMove(ts, t)
     ELSE IF Len(ts) = 2 THEN PinchMove(ts)
     ELSE /\ Emit(<<>>)
          /\ UNCHANGED <<tvars, startX, startY, lastDistance, lastScale, moveHistory>>
  /\ UNCHANGED <<lastTouchTime, touchCount, lastTouchX, lastTouchY>>

\* mutant of handleDoubleClick: the translate is not constrained after nextTick
handleDoubleClickUnconstrained(T, p) ==
  LET isNormalScale == Abs(T.scale - SCALE_UNIT) < SCALE_THRESHOLD
      centerX == X(p) - geometry.rectLeft
      centerY == Y(p) - geometry.rectTop
      newScale == IF isNormalScale THEN ZOOM_SCALE * SCALE_UNIT ELSE SCALE_UNIT
      newX == IF isNormalScale THEN (T.translateX - centerX) * ZOOM_SCALE + centerX ELSE 0
      newY == IF isNormalScale THEN (T.translateY - centerY) * ZOOM_SCALE + centerY
              ELSE Div((T.translateY - centerY) * SCALE_UNIT, T.scale) + centerY
  IN applyTransform(T, newScale, newX, newY)

\* handleDoubleClick(e) of a touch event whose changedTouches[0] is at p,
\* through the nextTick to its end
handleDoubleClick(T, p) ==
  LET isNormalScale == Abs(T.scale - SCALE_UNIT) < SCALE_THRESHOLD
      centerX == X(p) - geometry.rectLeft
      centerY == Y(p) - geometry.rectTop
      newScale == IF isNormalScale THEN ZOOM_SCALE * SCALE_UNIT ELSE SCALE_UNIT
      newX == IF isNormalScale THEN (T.translateX - centerX) * ZOOM_SCALE + centerX ELSE 0
      newY == IF isNormalScale THEN (T.translateY - centerY) * ZOOM_SCALE + centerY
              ELSE Div((T.translateY - centerY) * SCALE_UNIT, T.scale) + centerY
      c == constrainTranslateForRefs(applyTransform(T, newScale, newX, newY), newX, newY)
  IN applyTransform(c.T, newScale, c.p.x, c.p.y)

\* the scale handleDoubleClick emits with scale-change
DoubleClickScale(T) ==
  IF Abs(T.scale - SCALE_UNIT) < SCALE_THRESHOLD THEN ZOOM_SCALE * SCALE_UNIT ELSE SCALE_UNIT

\* handleTouchEnd starting inertial scroll from two samples already
handleTouchEndTwoSamples(ts, p, t) ==
  LET wasDragging == isDragging
      wasPinching == isPinching
      first == moveHistory[1]
      last == moveHistory[Len(moveHistory)]
      inertia == /\ wasDragging
                 /\ Len(moveHistory) > HistoryNeeded - 1
                 /\ last.time - first.time > HistorySpan
      T1 == IF inertia
            THEN startInertialScroll(TState, last.x - first.x, last.y - first.y,
                                     last.time - first.time)
            ELSE TState
      T2 == [T1 EXCEPT !.isDragging = FALSE,
                       !.isPinching = IF Len(ts) < 2 THEN FALSE ELSE T1.isPinching]
      snap == ~wasDragging /\ ~wasPinching /\ T2.scale < config.minScale
      T3 == IF snap THEN resetPosition(T2) ELSE T2
      snapEvents == IF snap THEN <<Ev("scale-change", 0, SCALE_UNIT)>> ELSE <<>>
      \* handleDoubleClickDetection
      isTap == ~T3.isDragging /\ ~T3.isPinching /\ Len(ts) = 0
      dx == X(p) - lastTouchX
      dy == Y(p) - lastTouchY
      near == /\ t - lastTouchTime < DOUBLE_CLICK_TIMEOUT
              /\ dx * dx + dy * dy <
                   (DOUBLE_CLICK_DISTANCE * Units.px) * (DOUBLE_CLICK_DISTANCE * Units.px)
      double == isTap /\ near /\ touchCount + 1 = 2
  IN /\ moveHistory' = <<>>
     /\ lastDistance' = IF Len(ts) < 2 THEN 0 ELSE lastDistance
     /\ lastScale' = IF Len(ts) < 2 THEN T2.scale ELSE lastScale
     /\ IF double
        THEN /\ SetTState(handleDoubleClick(T3, p))
             /\ Emit(snapEvents \o <<Ev("scale-change", 0, DoubleClickScale(T3))>>)
             /\ touchCount' = 0
             /\ UNCHANGED <<lastTouchTime, lastTouchX, lastTouchY>>
        ELSE /\ SetTState(T3)
             /\ Emit(snapEvents)
             /\ touchCount' = IF ~isTap THEN 0 ELSE IF near THEN touchCount + 1 ELSE 1
             /\ lastTouchTime' = IF isTap THEN t ELSE 0
             /\ lastTouchX' = IF isTap THEN X(p) ELSE lastTouchX
             /\ lastTouchY' = IF isTap THEN Y(p) ELSE lastTouchY
     /\ UNCHANGED <<startX, startY>>

\* handleTouchEnd(e), e.touches = ts, e.changedTouches = <<p>>, Date.now() = t,
\* with handleDoubleClickDetection
handleTouchEnd(ts, p, t) ==
  LET wasDragging == isDragging
      wasPinching == isPinching
      first == moveHistory[1]
      last == moveHistory[Len(moveHistory)]
      inertia == /\ wasDragging
                 /\ Len(moveHistory) > HistoryNeeded
                 /\ last.time - first.time > HistorySpan
      T1 == IF inertia
            THEN startInertialScroll(TState, last.x - first.x, last.y - first.y,
                                     last.time - first.time)
            ELSE TState
      T2 == [T1 EXCEPT !.isDragging = FALSE,
                       !.isPinching = IF Len(ts) < 2 THEN FALSE ELSE T1.isPinching]
      snap == ~wasDragging /\ ~wasPinching /\ T2.scale < config.minScale
      T3 == IF snap THEN resetPosition(T2) ELSE T2
      snapEvents == IF snap THEN <<Ev("scale-change", 0, SCALE_UNIT)>> ELSE <<>>
      \* handleDoubleClickDetection
      isTap == ~T3.isDragging /\ ~T3.isPinching /\ Len(ts) = 0
      dx == X(p) - lastTouchX
      dy == Y(p) - lastTouchY
      near == /\ t - lastTouchTime < DOUBLE_CLICK_TIMEOUT
              /\ dx * dx + dy * dy <
                   (DOUBLE_CLICK_DISTANCE * Units.px) * (DOUBLE_CLICK_DISTANCE * Units.px)
      double == isTap /\ near /\ touchCount + 1 = 2
  IN /\ moveHistory' = <<>>
     /\ lastDistance' = IF Len(ts) < 2 THEN 0 ELSE lastDistance
     /\ lastScale' = IF Len(ts) < 2 THEN T2.scale ELSE lastScale
     /\ IF double
        THEN /\ SetTState(handleDoubleClick(T3, p))
             /\ Emit(snapEvents \o <<Ev("scale-change", 0, DoubleClickScale(T3))>>)
             /\ touchCount' = 0
             /\ UNCHANGED <<lastTouchTime, lastTouchX, lastTouchY>>
        ELSE /\ SetTState(T3)
             /\ Emit(snapEvents)
             /\ touchCount' = IF ~isTap THEN 0 ELSE IF near THEN touchCount + 1 ELSE 1
             /\ lastTouchTime' = IF isTap THEN t ELSE 0
             /\ lastTouchX' = IF isTap THEN X(p) ELSE lastTouchX
             /\ lastTouchY' = IF isTap THEN Y(p) ELSE lastTouchY
     /\ UNCHANGED <<startX, startY>>

\* ---------------------------------------------------- the device and the host
\* a finger lands at p
TouchStart(p, dt) ==
  /\ gestureEvents < MaxGestureEvents
  /\ Len(touches) < MaxTouches
  /\ \A i \in DOMAIN touches : touches[i] # p
  /\ touches' = Append(touches, p)
  /\ now' = now + dt
  /\ gestureEvents' = gestureEvents + 1
  /\ handleTouchStart(touches')

\* the fingers move to ts
TouchMove(ts, dt) ==
  /\ gestureEvents < MaxGestureEvents
  /\ Len(touches) > 0
  /\ Len(ts) = Len(touches)
  /\ ts # touches
  /\ \A i, j \in DOMAIN ts : i # j => ts[i] # ts[j]
  /\ touches' = ts
  /\ now' = now + dt
  /\ gestureEvents' = gestureEvents + 1
  /\ handleTouchMove(ts, now')

\* finger k is lifted
TouchEnd(k, dt) ==
  /\ gestureEvents < MaxGestureEvents
  /\ k \in DOMAIN touches
  /\ touches' = [i \in 1..(Len(touches) - 1) |-> IF i < k THEN touches[i] ELSE touches[i + 1]]
  /\ now' = now + dt
  /\ gestureEvents' = gestureEvents + 1
  /\ handleTouchEnd(touches', touches[k], now')

\* handleDoubleClickMouse(e): handleDoubleClick returns at once for a MouseEvent
DoubleClickMouse(p) ==
  /\ gestureEvents < MaxGestureEvents
  /\ gestureEvents' = gestureEvents + 1
  /\ Emit(<<>>)
  /\ UNCHANGED <<tvars, startX, startY, lastScale, lastDistance, moveHistory,
                 lastTouchTime, touchCount, lastTouchX, lastTouchY, touches, now>>

\* the frame requested by startInertialScroll or animationLoop
AnimationFrame ==
  /\ animationFrame
  /\ SetTState(animationLoop(TState))
  /\ Emit(<<>>)
  /\ UNCHANGED gvars

\* the exposed resetPosition()
ResetPositionMethod ==
  /\ SetTState(resetPosition(TState))
  /\ Emit(<<Ev("scale-change", 0, SCALE_UNIT)>>)
  /\ UNCHANGED gvars

\* mutant of RendererIdle: a change of scale sends every slot back to pending,
\* to be rasterized again
RendererRerasterizesOnZoom ==
  /\ canvasList' = IF scale' # scale
                   THEN [i \in DOMAIN canvasList |-> [canvasList[i] EXCEPT !.renderStatus = "pending"]]
                   ELSE canvasList
  /\ UNCHANGED <<listDoc, isLoading, loadingProgress, baseScale, observer,
                 pdfDoc, loads, renders, visible, config, geometry, call, ret, emptyLoads>>

\* the renderer is left alone by the gestures, the configuration is fixed
\* when the component is set up, and no boundary function is called directly
RendererIdle ==
  UNCHANGED <<canvasList, listDoc, isLoading, loadingProgress, baseScale, observer,
              pdfDoc, loads, renders, visible, config, geometry, call, ret, emptyLoads>>

\* ------------------------------------------------------------ specification
\* the state after setup, but for the configuration
InitState ==
  /\ canvasList = <<>>
  /\ listDoc = 0
  /\ isLoading = FALSE
  /\ loadingProgress = 0
  /\ baseScale = SCALE_UNIT
  /\ observer = 0
  /\ pdfDoc = 0
  /\ loads = [l \in LoadIds |-> [pc |-> "idle", numPages |-> 0, result |-> "none"]]
  /\ renders = {}
  /\ visible = <<>>
  /\ ev = [l \in LoadIds |-> NoEvents]
  /\ emitted = <<>>
  /\ scale = SCALE_UNIT
  /\ translateX = 0
  /\ translateY = 0
  /\ isDragging = FALSE
  /\ isPinching = FALSE
  /\ velocityX = 0
  /\ velocityY = 0
  /\ animationFrame = FALSE
  /\ refsCached = FALSE
  /\ cachedBoundaryLimits = {}
  /\ lastBoundaryScale = 0
  /\ startX = 0
  /\ startY = 0
  /\ lastScale = SCALE_UNIT
  /\ lastDistance = 0
  /\ moveHistory = <<>>
  /\ lastTouchTime = 0
  /\ touchCount = 0
  /\ lastTouchX = 0
  /\ lastTouchY = 0
  /\ touches = <<>>
  /\ now = Clock.start
  /\ gestureEvents = 0
  /\ emptyLoads = 0

\* a component set up with the default configuration
Init == InitState /\ config = DEFAULT_CONFIG /\ geometry = Geometry /\ call = {} /\ ret = {}

\* a component set up with another configuration
InitConfig == InitState /\ config \in Configs /\ geometry = Geometry /\ call = {} /\ ret = {}

Next ==
  \/ \E l \in LoadIds : LoadPDFDocument(l)
  \/ LoadPDFDocumentEmpty
  \/ \E l \in LoadIds, n \in PageCounts : OpenResolve(l, n)
  \/ \E l \in LoadIds : OpenReject(l)
  \/ \E l \in LoadIds : Page1Resolve(l)
  \/ \E l \in LoadIds : Page1Reject(l)
  \/ \E i \in 1..MaxPages : NotifyIn(i)
  \/ \E i \in 1..MaxPages : NotifyOut(i)
  \/ \E r \in renders : GetPageResolve(r)
  \/ \E r \in renders : GetPageReject(r)
  \/ \E r \in renders : RenderResolve(r)
  \/ \E r \in renders : RenderReject(r)

Spec == Init /\ [][Next]_vars

\* the gestures of a mounted viewer
NextGesture ==
  \/ \E p \in Points, dt \in Clock.deltas : TouchStart(p, dt) /\ RendererIdle
  \/ \E ts \in UNION {[1..n -> Points] : n \in 1..MaxTouches}, dt \in Clock.deltas :
        TouchMove(ts, dt) /\ RendererIdle
  \/ \E k \in 1..MaxTouches, dt \in Clock.deltas : TouchEnd(k, dt) /\ RendererIdle
  \/ \E p \in Points : DoubleClickMouse(p) /\ RendererIdle
  \/ AnimationFrame /\ RendererIdle
  \/ ResetPositionMethod /\ RendererIdle

SpecGesture == Init /\ [][NextGesture]_vars

\* the gestures of a mounted viewer in a visible page: the browser runs every
\* animation frame callback that was requested and not cancelled
SpecInertia ==
  Init /\ [][NextGesture]_vars /\ WF_vars(AnimationFrame /\ RendererIdle)

\* ------------------------------------------- gestures on a displayed document
\* a viewer displaying the two-page document of load 1, page 1 rendered and
\* page 2 being rasterized (the state Spec reaches by LoadPDFDocument,
\* OpenResolve, Page1Resolve, NotifyIn, GetPageResolve, RenderResolve, NotifyIn,
\* GetPageResolve), no gesture made yet
InitViewing ==
  /\ canvasList = <<[NewCanvasItem EXCEPT !.renderStatus = "complete", !.canvas = TRUE,
                                          !.mounted = TRUE],
                    [NewCanvasItem EXCEPT !.renderStatus = "loading", !.canvas = TRUE,
                                          !.mounted = TRUE, !.rendering_task = 2]>>
  /\ listDoc = 1
  /\ isLoading = FALSE
  /\ loadingProgress = 50
  /\ baseScale = BaseScaleFor(1)
  /\ observer = 1
  /\ pdfDoc = 1
  /\ loads = [l \in LoadIds |-> IF l = 1
                                THEN [pc |-> "done", numPages |-> 2, result |-> "resolved"]
                                ELSE [pc |-> "idle", numPages |-> 0, result |-> "none"]]
  /\ renders = {[id |-> 2, pdf |-> 1, page |-> 2, pc |-> "render", item |-> 1,
                 cancelled |-> FALSE]}
  /\ visible = <<"in", "in">>
  /\ ev = [l \in LoadIds |-> IF l = 1
                             THEN [start |-> 1, complete |-> 1, error |-> 0, progress |-> <<1, 2>>]
                             ELSE NoEvents]
  /\ emitted = <<>>
  /\ scale = SCALE_UNIT
  /\ translateX = 0
  /\ translateY = 0
  /\ isDragging = FALSE
  /\ isPinching = FALSE
  /\ velocityX = 0
  /\ velocityY = 0
  /\ animationFrame = FALSE
  /\ refsCached = FALSE
  /\ cachedBoundaryLimits = {}
  /\ lastBoundaryScale = 0
  /\ startX = 0
  /\ startY = 0
  /\ lastScale = SCALE_UNIT
  /\ lastDistance = 0
  /\ moveHistory = <<>>
  /\ lastTouchTime = 0
  /\ touchCount = 0
  /\ lastTouchX = 0
  /\ lastTouchY = 0
  /\ touches = <<>>
  /\ now = Clock.start
  /\ gestureEvents = 0
  /\ emptyLoads = 0
  /\ config = DEFAULT_CONFIG /\ geometry = Geometry /\ call = {} /\ ret = {}

SpecViewing == InitViewing /\ [][NextGesture]_vars

\* ------------------------------------------------------------- a slow pinch
NextSlowPinch ==
  \/ \E p \in SlowPinch.points : TouchStart(p, SlowPinch.delta) /\ RendererIdle
  \/ \E ts \in [1..2 -> SlowPinch.points] : TouchMove(ts, SlowPinch.delta) /\ RendererIdle
  \/ \E k \in 1..MaxTouches : TouchEnd(k, SlowPinch.delta) /\ RendererIdle

\* a user who pinches with small finger movements
SpecSlowPinch == Init /\ [][NextSlowPinch]_vars

\* ------------------------------------------------------- a session of taps
\* a finger lands at p while no other is down
TapDown(p, dt) ==
  /\ gestureEvents < 2 * MaxTaps
  /\ touches = <<>>
  /\ touches' = <<p>>
  /\ now' = now + dt
  /\ gestureEvents' = gestureEvents + 1
  /\ handleTouchStart(touches')

\* the finger is lifted where it landed
TapUp(dt) ==
  /\ touches # <<>>
  /\ touches' = <<>>
  /\ now' = now + dt
  /\ gestureEvents' = gestureEvents + 1
  /\ handleTouchEnd(touches', touches[1], now')

\* a viewer mounted in any of the layouts
InitTaps == InitState /\ config = DEFAULT_CONFIG /\ geometry \in Geometries /\ call = {} /\ ret = {}

NextTaps ==
  \/ \E p \in Points, dt \in Clock.deltas : TapDown(p, dt) /\ RendererIdle
  \/ \E dt \in Clock.deltas : TapUp(dt) /\ RendererIdle

\* a user who only taps
SpecTaps == InitTaps /\ [][NextTaps]_vars

\* ------------------------------------------------------- a pinch, then taps
\* a finger lands, a second one joins it, they pinch and lift, and taps follow
NextPinchTap ==
  \/ NextTaps
  \/ \E p \in Points, dt \in Clock.deltas : TouchStart(p, dt) /\ Len(touches') = 2 /\ RendererIdle
  \/ \E ts \in [1..2 -> Points], dt \in Clock.deltas : TouchMove(ts, dt) /\ RendererIdle
  \/ \E k \in 1..2, dt \in Clock.deltas : TouchEnd(k, dt) /\ Len(touches) = 2 /\ RendererIdle

SpecPinchTap == Init /\ [][NextPinchTap]_vars

\* the same session in a viewer whose host passed a configuration
SpecConfig == InitConfig /\ [][NextPinchTap]_vars

\* ---------------------------------------------- a drag while the layout changes
\* the size of the container or of the content changes: the host resizes the
\* component, or renderPage sets the height of a mount target.  No code of
\* the component runs when it happens.
LayoutChange(G) ==
  /\ G # geometry
  /\ geometry' = G
  /\ UNCHANGED <<rvars, tvars, gvars, config, call, ret, emptyLoads>>

\* one finger lands, drags and lifts, the inertial frames run, and the layout
\* changes at any moment
NextResize ==
  \/ \E p \in Points, dt \in Clock.deltas : TapDown(p, dt) /\ RendererIdle
  \/ \E p \in Points, dt \in Clock.deltas : TouchMove(<<p>>, dt) /\ RendererIdle
  \/ \E dt \in Clock.deltas : TapUp(dt) /\ RendererIdle
  \/ AnimationFrame /\ RendererIdle
  \/ \E G \in Geometries : LayoutChange(G)

SpecResize == Init /\ [][NextResize]_vars

\* --------------------------------------------- the boundary functions alone
\* the arguments of a call sequence: the geometry of the two elements, the
\* scale, boundaryPadding and the point to constrain
BoundaryCalls == [G : Geometries, s : Scales, pad : Paddings, x : Offsets, y : Offsets]

InitBoundary ==
  /\ InitState
  /\ config = DEFAULT_CONFIG
  /\ geometry = Geometry
  /\ call \in {{c} : c \in BoundaryCalls}
  /\ ret = {}

\* getBoundaryLimitsForRefs called first: nothing cached, lastBoundaryScale 0
CallGetBoundaryLimits ==
  /\ ret = {}
  /\ \E c \in call :
       ret' = {[b |-> getBoundaryLimitsIn(c.G, c.pad, c.s, {}, 0), points |-> <<>>]}
  /\ UNCHANGED <<rvars, tvars, gvars, config, geometry, call, emptyLoads>>

\* constrainTranslate(x, y, boundaries) with the limits just obtained
CallConstrainTranslate ==
  /\ \E c \in call, r \in ret :
       /\ r.points = <<>>
       /\ ret' = {[r EXCEPT !.points = <<constrainTranslate(c.x, c.y, r.b)>>]}
  /\ UNCHANGED <<rvars, tvars, gvars, config, geometry, call, emptyLoads>>

\* constrainTranslateForRefs called again with the point it returned: the limits
\* come from getBoundaryLimits with the cache of the first call
CallConstrainTranslateAgain ==
  /\ \E c \in call, r \in ret :
       /\ Len(r.points) = 1
       /\ LET b2 == getBoundaryLimitsIn(c.G, c.pad, c.s, {r.b}, c.s)
          IN ret' = {[b |-> b2,
                      points |-> Append(r.points,
                                        constrainTranslate(r.points[1].x, r.points[1].y, b2))]}
  /\ UNCHANGED <<rvars, tvars, gvars, config, geometry, call, emptyLoads>>

NextBoundary ==
  \/ CallGetBoundaryLimits
  \/ CallConstrainTranslate
  \/ CallConstrainTranslateAgain

SpecBoundary == InitBoundary /\ [][NextBoundary]_vars

\* ------------------------------------------------------------------ claims
Terminal(e) == e.type \in {"load-complete", "load-error"}
EmittedNow(type) == {i \in DOMAIN emitted : emitted[i].type = type}
\* p <= q for fractions <<numerator, denominator>>
FracLE(p, q) == p[1] * q[2] <= q[1] * p[2]

\* C1: a loadDocument call with a non-empty source emits load-start first and
\* exactly once; while the call is pending it has emitted no terminal event,
\* once it has returned it has emitted exactly one of load-complete and
\* load-error; and the turn that emits the terminal event leaves isLoading false.
C1_LoadEvents ==
  /\ \A l \in LoadIds :
       /\ loads[l].result = "none" => ev[l] = NoEvents
       /\ loads[l].result # "none" => ev[l].start = 1
       /\ loads[l].result = "pending" => ev[l].complete + ev[l].error = 0
       /\ loads[l].result \in {"resolved", "rejected"} => ev[l].complete + ev[l].error = 1
  /\ (\E i \in DOMAIN emitted : Terminal(emitted[i])) => ~isLoading

\* C1 witness: one load has completed and another has failed
C1_Witness ==
  /\ \E l \in LoadIds : loads[l].result = "resolved" /\ ev[l].complete = 1 /\ ev[l].error = 0
  /\ \E l \in LoadIds : loads[l].result = "rejected" /\ ev[l].error = 1 /\ ev[l].complete = 0
  /\ ~isLoading

\* C2 (as claimed): every load-progress value is in [0,1] and is not below the
\* load-progress value emitted before it in the same load.
C2_ProgressMonotone ==
  [][\A i \in DOMAIN emitted' :
       emitted'[i].type = "load-progress" =>
         /\ FracLE(<<0, 1>>, emitted'[i].value)
         /\ FracLE(emitted'[i].value, <<1, 1>>)
         /\ FracLE(ev[emitted'[i].load].progress, emitted'[i].value)]_vars

C4_SettledSurfaces ==
  (renders = {} /\ Len(canvasList) > 1) =>
    \A i \in DOMAIN canvasList :
      /\ visible[i] = "out" =>
           canvasList[i].renderStatus = "pending" /\ ~canvasList[i].canvas
      /\ canvasList[i].canvas => visible[i] = "in"

\* C5 (as claimed): a page slot never has two rasterization tasks outstanding
\* (created by page.render, neither settled nor cancelled) at the same time.
C5_OneTaskPerSlot ==
  \A r1, r2 \in renders :
    (/\ r1.pc = "render" /\ ~r1.cancelled
     /\ r2.pc = "render" /\ ~r2.cancelled
     /\ r1.item = r2.item /\ r1.page = r2.page) => r1 = r2

\* C6 (as claimed): with more than one page slot, a slot that has lost
\* intersection is pending without a surface, whatever the rasterization that
\* was in flight for it does afterwards.
C6_EvictedStaysPending ==
  Len(canvasList) > 1 =>
    \A i \in DOMAIN canvasList :
      visible[i] = "out" =>
        canvasList[i].renderStatus = "pending" /\ ~canvasList[i].canvas

\* C7 (as claimed): when no load is in flight, some load has failed and some
\* load has completed, the slots and the observer of a completed document are in
\* place: a load that fails tears nothing down.
C7_PreviousKeptOnFailure ==
  (/\ \A l \in LoadIds : loads[l].pc \in {"idle", "done", "failed"}
   /\ \E l \in LoadIds : loads[l].pc = "failed"
   /\ \E l \in LoadIds : loads[l].pc = "done")
  => (listDoc # 0 /\ observer = listDoc /\ loads[listDoc].pc = "done")

\* C8: a load that has failed (at getDocument or at getPage(1)) has emitted
\* load-error exactly once and no load-complete, the turn that emits load-error
\* leaves isLoading false, and the slot list is not that of the failed document.
C8_FailedLoad ==
  /\ \A l \in LoadIds :
       loads[l].pc = "failed" => ev[l].error = 1 /\ ev[l].complete = 0 /\ listDoc # l
  /\ EmittedNow("load-error") # {} => ~isLoading

\* C8 witness: a load has failed at the metadata step (after getDocument gave
\* its page count), another at getDocument
C8_Witness ==
  /\ \E l \in LoadIds : loads[l].pc = "failed" /\ loads[l].numPages > 0 /\ ev[l].error = 1
  /\ EmittedNow("load-error") # {}
  /\ ~isLoading

\* C9 (as claimed): no loadDocument call ends in a rejected promise.
C9_NoRejection ==
  \A l \in LoadIds : loads[l].result # "rejected"

\* C10 (as claimed): at rest (no drag, no pinch, no inertial frame pending) the
\* translate is within the boundary limits computed for the current scale.
C10_AtRestWithinLimits ==
  LET b == ComputeBoundaryLimits(scale)
  IN (~isDragging /\ ~isPinching /\ ~animationFrame) =>
       /\ b.minX <= translateX /\ translateX <= b.maxX
       /\ b.minY <= translateY /\ translateY <= b.maxY

\* C11 (as claimed): whenever no pinch is active the scale is within
\* [minScale, maxScale] of the configuration.
C11_ScaleInRange ==
  ~isPinching => (config.minScale <= scale /\ scale <= config.maxScale)

\* C12: isDragging and isPinching are never both true, whatever touchstart,
\* touchmove and touchend events arrive and however many fingers are down.
C12_DragPinchExclusive == ~(isDragging /\ isPinching)

\* C12 witness: a third finger has landed during a pinch that began as a drag
C12_Witness ==
  /\ Len(touches) = 3
  /\ isPinching
  /\ ~isDragging
  /\ startX # 0

\* C13 (as claimed): with no inertial animation frame pending both velocities
\* are 0.
C13_VelocityOnlyWhileAnimating ==
  ~animationFrame => (velocityX = 0 /\ velocityY = 0)

\* translate is within the boundary limits of the current scale
WithinLimits ==
  LET b == ComputeBoundaryLimits(scale)
  IN /\ b.minX <= translateX /\ translateX <= b.maxX
     /\ b.minY <= translateY /\ translateY <= b.maxY

\* |velocityX| and |velocityY| are below 0.1 px
VelocityBelowThreshold ==
  \A v \in {velocityX, velocityY} : Abs(v) * 10 < Units.px

\* C14 (as claimed): once startInertialScroll has stored a nonzero velocity, a
\* state follows in which both velocities are below 0.1, no animation frame is
\* pending and the translate is within the boundary limits.
C14_InertiaTerminates ==
  (velocityX # 0 \/ velocityY # 0)
    ~> (~animationFrame /\ VelocityBelowThreshold /\ WithinLimits)

\* C14, the part that holds: an inertial scroll whose first frame was requested
\* ends after finitely many frames with both velocities 0, no frame pending and
\* the translate within the boundary limits.
C14_RequestedFramesTerminate ==
  animationFrame ~> (~animationFrame /\ VelocityBelowThreshold /\ WithinLimits)

\* C15: constraining a point that constrainTranslate returned gives the same
\* point, for every scale >= minScale and every (x, y).
C15_ConstrainIdempotent ==
  \A c \in call, r \in ret :
    (c.s >= config.minScale /\ Len(r.points) = 2) => r.points[2] = r.points[1]

\* C15 witness: a point outside the limits on both axes, where panning is
\* possible, has been constrained twice
C15_Witness ==
  \E c \in call, r \in ret :
    /\ c.s >= config.minScale
    /\ Len(r.points) = 2
    /\ r.points[1].x # c.x /\ r.points[1].y # c.y
    /\ r.b.minX < 0 /\ r.b.minY < 0

\* C16: on each axis, if the scaled content size is at most the content-area
\* size then min = max = 0, otherwise min = contentArea - scaledSize -
\* boundaryPadding and max = boundaryPadding.
C16_LimitsPerAxis ==
  \A c \in call, r \in ret :
    LET areaW == c.G.wrapperClientWidth - c.G.paddingLeft - c.G.paddingRight
        areaH == c.G.wrapperClientHeight - c.G.paddingTop - c.G.paddingBottom
        scaledW == Trunc(c.G.innerClientWidth * c.s, SCALE_UNIT)
        scaledH == Trunc(c.G.innerScrollHeight * c.s, SCALE_UNIT)
    IN /\ scaledW <= areaW => (r.b.minX = 0 /\ r.b.maxX = 0)
       /\ scaledW > areaW => (r.b.minX = areaW - scaledW - c.pad /\ r.b.maxX = c.pad)
       /\ scaledH <= areaH => (r.b.minY = 0 /\ r.b.maxY = 0)
       /\ scaledH > areaH => (r.b.minY = areaH - scaledH - c.pad /\ r.b.maxY = c.pad)

\* C16 witness: limits were computed for content that fits the content area
\* exactly on one axis and exceeds it on the other, with a positive padding
C16_Witness ==
  \E c \in call, r \in ret :
    /\ c.pad > 0
    /\ Trunc(c.G.innerClientWidth * c.s, SCALE_UNIT)
         = c.G.wrapperClientWidth - c.G.paddingLeft - c.G.paddingRight
    /\ r.b.minX = 0 /\ r.b.maxX = 0
    /\ r.b.minY < 0 /\ r.b.maxY = c.pad

\* the step of a touchend that releases the last finger and runs
\* handleDoubleClick (the only release of a last finger that leaves touchCount 0)
DoubleTapStep == Len(touches) = 1 /\ touches' = <<>> /\ touchCount' = 0
\* the released point relative to the container, and the transform at rest
TapPoint == [x |-> X(touches[1]) - geometry.rectLeft, y |-> Y(touches[1]) - geometry.rectTop]
AtRest == scale = SCALE_UNIT /\ translateX = 0 /\ translateY = 0

\* C17 as stated: from scale 1 and translate (0,0) a double-tap at P gives
\* scale 2 with the document point under P unchanged, (P - t') / s' = (P - t) / s;
\* a second double-tap at the same P gives scale 1 and translate (0,0)
C17_DoubleTapToggle ==
  [][DoubleTapStep =>
       /\ AtRest =>
            /\ scale' = ZOOM_SCALE * SCALE_UNIT
            /\ (TapPoint.x - translateX') * scale = (TapPoint.x - translateX) * scale'
            /\ (TapPoint.y - translateY') * scale = (TapPoint.y - translateY) * scale'
       /\ (scale = ZOOM_SCALE * SCALE_UNIT /\ translateX = -TapPoint.x /\ translateY = -TapPoint.y)
            => (scale' = SCALE_UNIT /\ translateX' = 0 /\ translateY' = 0)]_vars

\* C17 amended: from scale 1 and translate (0,0) a double-tap at P gives scale 2
\* and the translate -P constrained to the boundary limits at scale 2, so that
\* the document point under P is unchanged exactly when -P is within those
\* limits; a second double-tap at the same P gives scale 1 and translate (0,0)
C17_DoubleTapToggleWithinLimits ==
  [][DoubleTapStep =>
       LET c == constrainTranslate(-TapPoint.x, -TapPoint.y,
                                   ComputeBoundaryLimits(ZOOM_SCALE * SCALE_UNIT))
       IN /\ AtRest =>
               (scale' = ZOOM_SCALE * SCALE_UNIT /\ translateX' = c.x /\ translateY' = c.y)
          /\ (scale = ZOOM_SCALE * SCALE_UNIT /\ translateX = c.x /\ translateY = c.y)
               => (scale' = SCALE_UNIT /\ translateX' = 0 /\ translateY' = 0)]_vars

\* C17 witness: the second double-tap has just zoomed out to scale 1 and
\* translate (0,0), in the layout whose content fits the container at scale 2
C17_Witness ==
  /\ geometry.innerScrollHeight * ZOOM_SCALE <= geometry.wrapperClientHeight
  /\ touches = <<>> /\ touchCount = 0 /\ lastTouchTime # 0
  /\ emitted = <<Ev("scale-change", 0, SCALE_UNIT)>>
  /\ AtRest

\* a touchmove of two fingers that takes the scaling branch of handleTouchMove,
\* and the midpoint of its touches relative to the container
PinchStep ==
  Len(touches) = 2 /\ Len(touches') = 2 /\ touches' # touches /\ lastDistance # 0
PinchMidpoint ==
  [x |-> getTouchCenter(touches').x - geometry.rectLeft,
   y |-> getTouchCenter(touches').y - geometry.rectTop]
\* |(m - t1) / s1 - (m - t2) / s2| < 1px, scales in scale units
SameDocumentPoint(m, t1, s1, t2, s2) ==
  Abs((m - t1) * s2 - (m - t2) * s1) <= (Units.px * s1 * s2 - 1) \div SCALE_UNIT

\* C18: a pinch move step that starts with the translate within the limits and
\* the scale in range leaves the document point under the gesture midpoint
\* less than 1px from where it was
C18_PinchMidpointInvariant ==
  [][(/\ PinchStep
      /\ WithinLimits
      /\ config.minScale <= scale /\ scale <= config.maxScale)
     => /\ SameDocumentPoint(PinchMidpoint.x, translateX, scale, translateX', scale')
        /\ SameDocumentPoint(PinchMidpoint.y, translateY, scale, translateY', scale')]_vars

\* C19: a release that ends a drag is not a tap, so no double-tap is recognised
\* on the release of a finger that moved while it was down (moveHistory holds
\* the moves of the drag since its touchstart)
C19_DragReleaseIsNoTap ==
  [][DoubleTapStep => moveHistory = <<>>]_vars

\* the step of a dblclick event: the only event that leaves the touch points
\* as they are
MouseDoubleClickStep == gestureEvents' = gestureEvents + 1 /\ touches' = touches

\* C20: a mouse double-click zooms to ZOOM_SCALE from a scale within
\* SCALE_THRESHOLD of 1, and resets to scale 1 from any other scale
C20_MouseDoubleClickToggles ==
  [][MouseDoubleClickStep =>
       scale' = IF Abs(scale - SCALE_UNIT) < SCALE_THRESHOLD
                THEN ZOOM_SCALE * SCALE_UNIT ELSE SCALE_UNIT]_vars

\* the rasterization whose settling a step reports: a renderPage call that had
\* its task (page.render) running, uncancelled, and whose slot the step marks
\* complete
CompletedRasterization(r) ==
  /\ r \in renders /\ r \notin renders'
  /\ r.pc = "render" /\ ~r.cancelled
  /\ r.item = listDoc
  /\ canvasList'[r.page].renderStatus = "complete"
\* (number of pages rendered so far) / (total pages) after the step
RenderedSoFar ==
  <<Cardinality({i \in DOMAIN canvasList' : canvasList'[i].renderStatus = "complete"}),
    Len(canvasList')>>

\* C21 (as claimed): every load-progress event is emitted by a step that
\* completes a page's rasterization, with the value (pages rendered so far) /
\* (total pages); none is emitted for a rasterization that failed or was
\* cancelled.
C21_ProgressOnCompletion ==
  [][\A i \in DOMAIN emitted' :
       emitted'[i].type = "load-progress" =>
         /\ \E r \in renders : CompletedRasterization(r)
         /\ FracLE(emitted'[i].value, RenderedSoFar)
         /\ FracLE(RenderedSoFar, emitted'[i].value)]_vars

\* a renderPage call is in flight for slot i of the current list
InFlight(i) ==
  \E r \in renders : r.page = i /\ (r.pc = "getPage" \/ r.item = listDoc)
\* slot i was left in status loading by a rasterization that failed
FailedSlot(i) ==
  i \in DOMAIN canvasList /\ canvasList[i].renderStatus = "loading" /\ ~InFlight(i)

\* C22 (as claimed): a slot whose rasterization failed is recoverable whatever
\* the page count: a later notification sequence can start a new rasterization,
\* which takes a slot that the not-intersecting branch of the observer callback
\* can reset from loading to pending (it does so only with more than one slot)
C22_FailedSlotRecoverable ==
  \A i \in DOMAIN canvasList : FailedSlot(i) => Len(canvasList) > 1

\* the failed slot of a one-page document stays in status loading, and no
\* renderPage call is started for it, as long as the document is not replaced
C22_SinglePageStuck ==
  [][(Len(canvasList) = 1 /\ FailedSlot(1) /\ listDoc' = listDoc)
     => (canvasList'[1].renderStatus = "loading" /\ renders' \subseteq renders)]_vars

\* the step of a 'not intersecting' notification for some mount target
NotIntersectingStep ==
  /\ DOMAIN visible' = DOMAIN visible
  /\ \E i \in DOMAIN visible : visible[i] # "out" /\ visible'[i] = "out"

\* C23: with exactly one page slot a 'not intersecting' notification leaves
\* the slot (surface, status, task handle) and its rasterization as they are
C23_SinglePageNeverEvicted ==
  [][(Len(canvasList) = 1 /\ NotIntersectingStep)
     => (canvasList' = canvasList /\ renders' = renders)]_vars

\* C23 witness: the only slot of a document has been rendered, its latest
\* notification is 'not intersecting', and it still has its surface
C23_Witness ==
  /\ Len(canvasList) = 1
  /\ visible[1] = "out"
  /\ canvasList[1].renderStatus = "complete" /\ canvasList[1].canvas /\ canvasList[1].mounted

\* C24: a loadDocument call with an empty source emits no event and leaves
\* isLoading, the page slots, the observer, the calls in flight and the
\* transform state unchanged
C24_EmptySourceNoOp ==
  [][emptyLoads' # emptyLoads =>
       /\ emitted' = <<>>
       /\ UNCHANGED <<isLoading, loadingProgress, canvasList, listDoc, observer, pdfDoc,
                      baseScale, loads, renders, visible, tvars>>]_vars

\* C24 witness: loadDocument has been called with an empty source, and a
\* document is displayed while the load of another is in flight
C24_Witness ==
  /\ emptyLoads > 0
  /\ isLoading /\ canvasList # <<>> /\ observer # 0

\* getPageCount() of defineExpose
getPageCount == Len(canvasList)

\* C25: from the creation of a document's slots until the slot list is
\* replaced (by the teardown for, or the slots of, another load),
\* getPageCount() is that document's page count, whatever was evicted or
\* rendered again
C25_PageCountStable ==
  \A l \in LoadIds : listDoc = l => getPageCount = loads[l].numPages

\* C25 witness: a two-page document is displayed, one slot has been evicted
\* (pending, no surface, latest notification 'not intersecting') and the other
\* is rendered
C25_Witness ==
  /\ \E l \in LoadIds : listDoc = l /\ loads[l].pc = "done" /\ loads[l].numPages = 2
  /\ getPageCount = 2
  /\ \E i, j \in DOMAIN canvasList :
       /\ visible[i] = "out" /\ canvasList[i].renderStatus = "pending" /\ ~canvasList[i].canvas
       /\ canvasList[j].renderStatus = "complete"

\* C26, the base scale: as long as the slot list is that of the same document,
\* baseScale keeps its value
C26_BaseScaleFixed ==
  [][(listDoc # 0 /\ listDoc' = listDoc) => baseScale' = baseScale]_vars

LimitsComputedNear(s) ==
  {ComputeBoundaryLimits(k) :
     k \in (s - BOUNDARY_SCALE_THRESHOLD + 1)..(s + BOUNDARY_SCALE_THRESHOLD - 1)}

ClampStep ==
  \/ /\ touches' # touches /\ Len(touches') = Len(touches)
     /\ (Len(touches) = 1 /\ isDragging) \/ (Len(touches) = 2 /\ lastDistance # 0)
  \/ DoubleTapStep
  \/ animationFrame /\ cachedBoundaryLimits' # {} /\ tvars' # tvars /\ UNCHANGED gvars

\* C28 (as claimed): constrainTranslate clamps with limits of the current size
\* of the container and the content: the limits a clamping step used (left in
\* the cache) are those getBoundaryLimits computes for the present layout at
\* the scale of the call
C28_LimitsOfCurrentSize ==
  [][(ClampStep /\ geometry' = geometry)
     => cachedBoundaryLimits' \subseteq LimitsComputedNear(lastBoundaryScale')]_vars

\* the translate c - (c - old) * (newScale / oldScale) that keeps the document
\* point under the tap where it is when the scale becomes ZOOM_SCALE
ZoomAbout(c, old) == c - Div((c - old) * ZOOM_SCALE * SCALE_UNIT, scale)
ZoomTarget == [x |-> ZoomAbout(TapPoint.x, translateX), y |-> ZoomAbout(TapPoint.y, translateY)]

\* C29 (as claimed): a double-tap at a scale within SCALE_THRESHOLD of 1 zooms
\* to ZOOM_SCALE and, where that translate is within the limits of the new
\* scale, leaves the document point under the tap less than 1px from where it
\* was; a double-tap at any other scale resets the scale to 1
C29_DoubleTapKeepsPoint ==
  [][DoubleTapStep =>
       IF Abs(scale - SCALE_UNIT) < SCALE_THRESHOLD
       THEN /\ scale' = ZOOM_SCALE * SCALE_UNIT
            /\ constrainTranslate(ZoomTarget.x, ZoomTarget.y,
                                  ComputeBoundaryLimits(ZOOM_SCALE * SCALE_UNIT)) = ZoomTarget
               => /\ SameDocumentPoint(TapPoint.x, translateX, scale, translateX', scale')
                  /\ SameDocumentPoint(TapPoint.y, translateY, scale, translateY', scale')
       ELSE scale' = SCALE_UNIT]_vars

\* the step of a touchstart: one more finger is on the screen
TouchStartStep == Len(touches') = Len(touches) + 1

\* C30: after a touchstart no inertial animation frame is pending and both
\* velocities are 0, and no frame is pending in any state in which isDragging
\* or isPinching is true, so that no inertial step is taken from such a state
C30_TouchStartStopsInertia ==
  [][/\ TouchStartStep => (~animationFrame' /\ velocityX' = 0 /\ velocityY' = 0)
     /\ (isDragging' \/ isPinching') => ~animationFrame']_vars

\* C30 witness: a finger has landed on coasting content: the session is a drag
\* of three samples, its release, and this touchstart, and the translate is
\* one that only inertial frames after the release leave
C30_Witness ==
  /\ Len(touches) = 1 /\ isDragging /\ moveHistory = <<>>
  /\ gestureEvents = MaxGestureEvents
  /\ scale = SCALE_UNIT
  /\ ~animationFrame /\ velocityX = 0 /\ velocityY = 0
  /\ \A p, q \in Points : translateY # Y(p) - Y(q)
  /\ \A b \in cachedBoundaryLimits \cup {ComputeBoundaryLimits(scale)} :
       b.minY < translateY /\ translateY < b.maxY

\* the step of a touchend: fewer fingers are on the screen
ReleaseStep == Len(touches') < Len(touches)

\* the time spanned by the samples of moveHistory
HistoryTime == moveHistory[Len(moveHistory)].time - moveHistory[1].time

\* C31: an inertial animation frame is requested only by a touchend that ends
\* a drag with at least 3 history samples spanning more than 10ms; a touchend
\* during a pinch requests none; moveHistory is empty after every touchend
C31_InertiaOnlyFromDragRelease ==
  [][/\ (~animationFrame /\ animationFrame')
          => /\ ReleaseStep /\ isDragging /\ ~isPinching
             /\ Len(moveHistory) >= 3 /\ HistoryTime > 10
     /\ (ReleaseStep /\ isPinching) => (~animationFrame' /\ velocityX' = 0 /\ velocityY' = 0)
     /\ ReleaseStep => moveHistory' = <<>>]_vars

\* C31 witness: the release of a drag has requested an inertial frame
C31_Witness ==
  /\ touches = <<>> /\ moveHistory = <<>>
  /\ animationFrame /\ ~isDragging /\ ~isPinching
  /\ velocityY # 0

\* a step of animationLoop: a frame was pending, no touch handler ran and
\* nothing was emitted
InertialStep ==
  /\ animationFrame /\ tvars' # tvars
  /\ emitted' = <<>> /\ geometry' = geometry /\ UNCHANGED gvars

\* C32 (as claimed): an inertial step moves translate to current + velocity
\* clamped to the boundary limits of the current scale and sizes, leaves an
\* axis's velocity 0 if the clamp altered that axis and else damped by
\* dampingFactor (both 0 once both are below 0.1px per frame, when no further
\* frame is requested); translate is then within the limits and neither |vx|
\* nor |vy| has increased
C32_InertialStepClamps ==
  [][InertialStep =>
       LET newX == translateX + velocityX
           newY == translateY + velocityY
           c == constrainTranslate(newX, newY, ComputeBoundaryLimits(scale))
           vx == IF c.x # newX THEN 0 ELSE Trunc(velocityX * dampingFactorPct, 100)
           vy == IF c.y # newY THEN 0 ELSE Trunc(velocityY * dampingFactorPct, 100)
           stop == Abs(vx) * 10 < Units.px /\ Abs(vy) * 10 < Units.px
       IN /\ translateX' = c.x /\ translateY' = c.y
          /\ velocityX' = (IF stop THEN 0 ELSE vx)
          /\ velocityY' = (IF stop THEN 0 ELSE vy)
          /\ animationFrame' = ~stop
          /\ WithinLimits'
          /\ Abs(velocityX') <= Abs(velocityX) /\ Abs(velocityY') <= Abs(velocityY)]_vars

\* C33: a touchstart with two touch points, whether or not a drag is under
\* way, leaves isPinching true and isDragging false and records the distance
\* between the two touches and the current scale as the pinch baseline
C33_SecondFingerStartsPinch ==
  [][(TouchStartStep /\ Len(touches') = 2)
       => /\ isPinching' /\ ~isDragging'
          /\ lastDistance' = getDistance(touches')
          /\ lastScale' = scale /\ scale' = scale]_vars

\* C33 witness: a second finger has landed during a drag that had moved the
\* content
C33_Witness ==
  /\ Len(touches) = 2 /\ isPinching /\ ~isDragging
  /\ moveHistory = <<>> /\ lastDistance = getDistance(touches) /\ lastScale = scale
  /\ scale = SCALE_UNIT /\ translateY # 0
  /\ startY = Y(touches[1]) - translateY

\* a touchmove of the one finger of a drag
DragStep ==
  /\ isDragging /\ Len(touches) = 1 /\ Len(touches') = 1 /\ touches' # touches

\* C34 (as claimed): the touchstart of one finger records the touch position
\* minus the translate as the anchor; every move of a drag leaves the scale
\* unchanged and sets translate to the touch position minus the anchor,
\* constrained to the boundary limits of the current scale and sizes
C34_DragFollowsFinger ==
  [][/\ (TouchStartStep /\ Len(touches') = 1)
          => /\ startX' = X(touches'[1]) - translateX
             /\ startY' = Y(touches'[1]) - translateY
     /\ DragStep
          => LET c == constrainTranslate(X(touches'[1]) - startX, Y(touches'[1]) - startY,
                                         ComputeBoundaryLimits(scale))
             IN /\ scale' = scale /\ startX' = startX /\ startY' = startY
                /\ translateX' = c.x /\ translateY' = c.y
                /\ WithinLimits']_vars

\* a call of the exposed resetPosition: something is emitted although no touch
\* or mouse event was handled
ResetStep == emitted' # <<>> /\ geometry' = geometry /\ UNCHANGED gvars

\* C35: resetPosition, in whatever state it is called, leaves no inertial
\* frame pending and both velocities 0, scale 1 and translate (0,0), and no
\* cached boundary limits, and emits one scale-change event with value 1 and
\* nothing else
C35_ResetPosition ==
  [][ResetStep =>
       /\ ~animationFrame' /\ velocityX' = 0 /\ velocityY' = 0
       /\ scale' = SCALE_UNIT /\ translateX' = 0 /\ translateY' = 0
       /\ cachedBoundaryLimits' = {}
       /\ emitted' = <<Ev("scale-change", 0, SCALE_UNIT)>>]_vars

\* C35 witness: resetPosition has been called with no finger on the screen,
\* after a pinch that was released at another scale
C35_Witness ==
  /\ emitted = <<Ev("scale-change", 0, SCALE_UNIT)>>
  /\ touches = <<>> /\ lastScale # SCALE_UNIT
  /\ scale = SCALE_UNIT /\ translateX = 0 /\ translateY = 0
  /\ cachedBoundaryLimits = {} /\ ~animationFrame

\* C36 (as claimed): the transition of transformStyle is 'none' in exactly the
\* states in which the viewer is dragging, pinching or has an inertial frame
\* pending
C36_TransitionOffWhileMoving ==
  (transformStyle.transition = "none") <=> (isDragging \/ isPinching \/ animationFrame)

\* C37 (as claimed): a page slot whose status is 'complete' has a canvas, the
\* canvas is a child of its mount target, and its rendering_task is null
C37_CompleteSlotHasSurface ==
  \A i \in DOMAIN canvasList :
    canvasList[i].renderStatus = "complete"
      => /\ canvasList[i].canvas /\ canvasList[i].mounted
         /\ canvasList[i].rendering_task = 0

\* the task-handle part of C37 alone
C37_CompleteSlotHasNoTask ==
  \A i \in DOMAIN canvasList :
    canvasList[i].renderStatus = "complete" => canvasList[i].rendering_task = 0

\* a step of the renderPage call r (not a notification that cancels it), r
\* having been started for a document other than the one whose slots are
\* displayed
StaleRenderStep(r) ==
  /\ r \in renders /\ r \notin renders' /\ visible' = visible
  /\ listDoc # 0 /\ r.pdf # listDoc /\ listDoc' = listDoc

\* C38 (as claimed): a step of a rasterization started for a previous document
\* changes no slot of the displayed document and emits no load-progress
C38_StaleRenderIsInert ==
  [][\A r \in renders :
       StaleRenderStep(r)
         => /\ canvasList' = canvasList
            /\ \A i \in DOMAIN emitted' : emitted'[i].type # "load-progress"]_vars

\* a loadDocument call that has emitted load-start and neither load-complete
\* nor load-error yet
LoadPending(l) == ev[l].start = 1 /\ ev[l].complete = 0 /\ ev[l].error = 0

\* C39 (as claimed): isLoading is true while any loadDocument call is pending,
\* and once every call has completed the slots are those of the document
\* requested last
C39_OverlappingLoads ==
  /\ (\E l \in LoadIds : LoadPending(l)) => isLoading
  /\ (\A l \in LoadIds : loads[l].result = "resolved") => listDoc = MaxLoads
====
